---- MODULE Spec2Model ----
(***************************************************************************)
(* NgFormsManager (projects/ngneat/forms-manager/src/lib/forms-manager.ts) *)
(* as a state machine: the store, the three per-name maps, the rxjs        *)
(* subscriptions created by upsert (with their debounce timers), the live  *)
(* controls and localStorage.                                              *)
(*                                                                         *)
(* A JavaScript object / Map is a function whose DOMAIN is the set of keys *)
(* present.  A leaf control carries a value; its validity is computed by   *)
(* its validator.  A localStorage item is the serialised form of a blob:   *)
(* the set of <<name, entry>> members of the JSON object.                  *)
(***************************************************************************)
EXTENDS Integers, Sequences, FiniteSets, Bags, TLC

\* ---------------------------------------------------------------- bounds
\* subscriptions that upsert replaced without cancelling them
MaxOrphans == 1

\* ------------------------------------------------------------ input sets
Names == {"a", "b"}
Controls == {"c1", "c2"}
Values == {0, 1}
ALL == "$$ALL"
DefaultKey == "ngFormsManager"
CustomKey == "customKey"
Keys == {DefaultKey, CustomKey}

\* FormKeys<FormsState>: a single name or an array of names (coerceArray)
NameArgs == {<<"a">>, <<"b">>, <<"a", "b">>}

\* the per-call UpsertConfig objects the model passes to upsert
NoConfig == [persistState |-> "unset", withInitialValue |-> FALSE, key |-> DefaultKey]
WithInitialValue == [NoConfig EXCEPT !.withInitialValue = TRUE]
PersistState == [NoConfig EXCEPT !.persistState = "on"]

\* the upsert calls <<name, control, config>> of the lifecycle specification
LifecycleCalls ==
  {<<"a", "c1", NoConfig>>, <<"b", "c1", NoConfig>>}

\* ... of the initial-value specification
InitialValueCalls ==
  {<<"a", "c1", NoConfig>>, <<"a", "c1", WithInitialValue>>}

\* ... of the persistence specification
PersistCalls ==
  {<<"a", "c2", PersistState>>, <<"b", "c1", NoConfig>>}

\* store          FormsStore: name -> snapshot
\* valueChanges   valueChanges$$: name -> Subscription
\* instances      instances$$: name -> control
\* initialValues  initialValues$$: name -> value
\* orphans        the subscriptions that are still active but that
\*                valueChanges$$ no longer holds (a bag)
\* controls       the live controls: control -> [value]
\* storage        localStorage: key -> serialised blob
\* isBrowser      whether localStorage exists
\* config         the process-wide NgFormsManagerConfig
\* lastOp         the last call and what it sent on destroy$$
\* streams        the subscribed derived streams: listener -> the state of its
\*                pipeline and what it emitted during the last step
VARIABLES store, valueChanges, instances, initialValues, orphans,
          controls, storage, isBrowser, config, lastOp, streams

vars == <<store, valueChanges, instances, initialValues, orphans,
          controls, storage, isBrowser, config, lastOp, streams>>

\* ------------------------------------------------------- Map / object ops
EmptyMap == <<>>
Has(m, k) == k \in DOMAIN m
MapSet(m, k, v) == [x \in DOMAIN m \cup {k} |-> IF x = k THEN v ELSE m[x]]
MapDelete(m, ks) == [x \in DOMAIN m \ ks |-> m[x]]
Range(s) == {s[i] : i \in DOMAIN s}

\* ------------------------------------------------------ the live control
\* c1 has no validator; c2 has a "required"-like validator
Validate(c, v) == c = "c1" \/ v # 0
ControlErrors(c, v) == IF Validate(c, v) THEN "null" ELSE "required"

\* toStore(name, control) for a leaf control
toStore(c, v) ==
  [value |-> v, valid |-> Validate(c, v), dirty |-> FALSE,
   disabled |-> FALSE, errors |-> ControlErrors(c, v)]

BookkeepingKeys == {"valid", "dirty", "disabled", "errors"}
\* filterControlKeys(value): the snapshot without the bookkeeping fields
filterControlKeys(snap) == [k \in DOMAIN snap \ BookkeepingKeys |-> snap[k]]

\* mergeDeep(target, source) on leaf snapshots: the source's fields win
mergeDeep(target, source) ==
  [k \in DOMAIN target \cup DOMAIN source |->
     IF k \in DOMAIN source THEN source[k] ELSE target[k]]

\* deleteControl(snapshot, names) of builders
deleteControl(snapshot, names) == MapDelete(snapshot, Range(names))

\* ----------------------------------------------------------- localStorage
\* JSON.stringify(object) / JSON.parse(string)
Stringify(m) == {<<n, m[n]>> : n \in DOMAIN m}
Parse(s) == [n \in {p[1] : p \in s} |-> (CHOOSE p \in s : p[1] = n)[2]]

\* getFromStorage(key): JSON.parse(localStorage.getItem(key) || '{}')
getFromStorage(st, key) == IF Has(st, key) THEN Parse(st[key]) ELSE EmptyMap

\* updateStorage(name, value, config): the localStorage after the call
updateStorageUnfiltered(st, name, value, cfg) ==
  IF isBrowser /\ cfg.persistState
  THEN MapSet(st, cfg.key,
              Stringify(MapSet(getFromStorage(st, cfg.key), name, value)))
  ELSE st
updateStorage(st, name, value, cfg) ==
  IF isBrowser /\ cfg.persistState
  THEN MapSet(st, cfg.key,
              Stringify(MapSet(getFromStorage(st, cfg.key), name,
                               filterControlKeys(value))))
  ELSE st

\* this.config.merge(config): the call-site option over the process default
MergeConfig(cfg) ==
  [persistState     |-> IF cfg.persistState = "unset" THEN config.persistState
                        ELSE cfg.persistState = "on",
   withInitialValue |-> cfg.withInitialValue,
   key              |-> cfg.key]

\* hasControl(name) without a path: !!store.getValue()[name]
hasControl(s, name) == Has(s, name)

\* updateStore(name, control): store.update({[name]: toStore(name, control)})
updateStoreStale(s, name, c) == MapSet(s, name, toStore(c, 0))
updateStore(s, name, c) == MapSet(s, name, toStore(c, controls[c].value))

\* --------------------------------------------------------------- ghost
\* lastOp records the last call made on the manager (or the last event of a
\* control): the operation, its name argument as coerceArray gives it, whether
\* it raised, and what it sent on destroy$$
Op(op, names, raised, emitted) ==
  [op |-> op, names |-> names, raised |-> raised, emitted |-> emitted]

\* the rxjs Subscription made by upsert, with its debounce timer
Subscription(name, c, merged) ==
  [name |-> name, control |-> c, persistState |-> merged.persistState,
   key |-> merged.key, pending |-> FALSE]

\* localStorage as an earlier session with persistState left it
PriorSession ==
  MapSet(EmptyMap, DefaultKey,
         Stringify([n \in Names |-> filterControlKeys(toStore("c1", 1))]))

\* ---------------------------------------------------- derived streams
\* a listener is a subscription to controlChanges(name, path) (project
\* "control") or to valueChanges(name, path) (project "value"); path is the
\* sequence of keys of the path string, <<>> when no path is given
Listener(name, path, project) == [name |-> name, path |-> path, project |-> project]

Null == [isNull |-> TRUE]

\* findControl(control, path) of builders: the node at path, null when a hop
\* does not resolve
RECURSIVE findControl(_, _)
findControl(node, path) ==
  IF path = <<>> THEN node
  ELSE IF "controls" \notin DOMAIN node THEN Null
  ELSE IF Head(path) \notin DOMAIN node.controls THEN Null
  ELSE findControl(node.controls[Head(path)], Tail(path))

\* the state of a pipeline before the store notifies: distinctUntilChanged has
\* seen nothing
NewStream ==
  [last |-> <<>>, prev |-> <<>>, out |-> <<>>, gap |-> FALSE, failed |-> FALSE]

\* controlChanges(name, path), lines 121-131, followed by the map of
\* valueChanges, lines 88-90, on one notification of the store:
\* filterNil, findControl, distinctUntilChanged(isEqual), then the projection,
\* which raises on a null node.  last is the memory of distinctUntilChanged,
\* prev the node of the last emission, out what the step emits and gap
\* whether the entry was absent since the last emission
pipelineForgetful(l, st, s) ==
  IF st.failed THEN [st EXCEPT !.out = <<>>]
  ELSE IF ~Has(s, l.name) THEN [st EXCEPT !.out = <<>>, !.last = <<>>, !.gap = TRUE]
  ELSE LET node == IF l.path = <<>> THEN s[l.name] ELSE findControl(s[l.name], l.path)
       IN IF st.last = <<node>> THEN [st EXCEPT !.out = <<>>]
          ELSE IF l.project = "value" /\ node = Null
          THEN [st EXCEPT !.last = <<node>>, !.out = <<>>, !.failed = TRUE]
          ELSE [last |-> <<node>>, prev |-> <<node>>,
                out |-> <<IF l.project = "value" THEN node.value ELSE node>>,
                gap |-> FALSE, failed |-> FALSE]
pipeline(l, st, s) ==
  IF st.failed THEN [st EXCEPT !.out = <<>>]
  ELSE IF ~Has(s, l.name) THEN [st EXCEPT !.out = <<>>, !.gap = TRUE]
  ELSE LET node == IF l.path = <<>> THEN s[l.name] ELSE findControl(s[l.name], l.path)
       IN IF st.last = <<node>> THEN [st EXCEPT !.out = <<>>]
          ELSE IF l.project = "value" /\ node = Null
          THEN [st EXCEPT !.last = <<node>>, !.out = <<>>, !.failed = TRUE]
          ELSE [last |-> <<node>>, prev |-> <<node>>,
                out |-> <<IF l.project = "value" THEN node.value ELSE node>>,
                gap |-> FALSE, failed |-> FALSE]

\* store.set / store.update: every subscribed stream is notified synchronously
notify(str, s) == [l \in DOMAIN str |-> pipeline(l, str[l], s)]

\* a step that does not write the store: nothing is emitted
quiet(str) == [l \in DOMAIN str |-> [str[l] EXCEPT !.out = <<>>]]

InitState(browser, persistDefault, priorStorage, listeners) ==
  /\ streams = [l \in listeners |-> NewStream]
  /\ store = EmptyMap
  /\ valueChanges = EmptyMap
  /\ instances = EmptyMap
  /\ initialValues = EmptyMap
  /\ orphans = EmptyBag
  /\ controls = [c \in Controls |-> [value |-> 0]]
  /\ isBrowser = browser
  /\ config = [persistState |-> persistDefault]
  /\ storage = priorStorage
  /\ lastOp = Op("init", <<>>, FALSE, <<>>)

InitWith(browser, persistDefault, priorStorage) ==
  InitState(browser, persistDefault, priorStorage, {})

Init == InitWith(TRUE, FALSE, EmptyMap)

\* ------------------------------------------------------------ operations

\* lines 336-338 of upsert: the initial value is captured once
captureInitialValueAlways(iv, name, c, merged) ==
  IF merged.withInitialValue
  THEN MapSet(iv, name, controls[c].value)
  ELSE iv
captureInitialValue(iv, name, c, merged) ==
  IF merged.withInitialValue /\ ~Has(iv, name)
  THEN MapSet(iv, name, controls[c].value)
  ELSE iv

\* toControlValue(name, control, arrControlFactory), lines 395-410: the value
\* of the store entry of the name
toControlValueOfControl(s, name, c) == controls[c].value
toControlValue(s, name, c) == s[name].value

\* upsert(name, control, config), lines 333-373
upsert(name, c, cfg) ==
  LET merged == MergeConfig(cfg)
      snapshot == toStore(c, controls[c].value)
      storageValue == getFromStorage(storage, merged.key)
      hydrate == /\ isBrowser
                 /\ cfg.persistState = "on"
                 /\ ~hasControl(store, name)
                 /\ Has(storageValue, name)
      store1 == IF hydrate
                THEN MapSet(store, name, mergeDeep(snapshot, storageValue[name]))
                ELSE store
      exists == hasControl(store1, name)
      sub == Subscription(name, c, merged)
  IN /\ Has(valueChanges, name) => BagCardinality(orphans) < MaxOrphans
     /\ initialValues' = captureInitialValue(initialValues, name, c, merged)
     /\ IF exists
        THEN /\ controls' = [controls EXCEPT ![c].value = toControlValue(store1, name, c)]
             /\ store' = store1
             /\ storage' = storage
        ELSE /\ controls' = controls
             /\ store' = updateStore(store1, name, c)
             /\ storage' = updateStorage(storage, name, snapshot, merged)
     /\ orphans' = IF Has(valueChanges, name)
                   THEN orphans (+) SetToBag({valueChanges[name]})
                   ELSE orphans
     /\ valueChanges' = MapSet(valueChanges, name, sub)
     /\ instances' = MapSet(instances, name, c)
     /\ streams' = IF hydrate \/ ~exists THEN notify(streams, store')
                   ELSE quiet(streams)
     /\ lastOp' = Op("upsert", <<name>>, FALSE, <<>>)
     /\ UNCHANGED <<isBrowser, config>>

UpsertFrom(calls) == \E call \in calls : upsert(call[1], call[2], call[3])

Upsert == UpsertFrom(LifecycleCalls)

UpsertInitial == UpsertFrom(InitialValueCalls)

UpsertPersist == UpsertFrom(PersistCalls)

\* a value change of a live control: valueChanges / statusChanges emit and
\* every subscription on the control (re)starts its debounce timer
Notify(sub, c) == IF sub.control = c THEN [sub EXCEPT !.pending = TRUE] ELSE sub

controlSetValue(c, v, op, names) ==
  /\ controls' = [controls EXCEPT ![c].value = v]
  /\ valueChanges' = [n \in DOMAIN valueChanges |-> Notify(valueChanges[n], c)]
  /\ orphans' = BagOfAll(LAMBDA sub : Notify(sub, c), orphans)
  /\ lastOp' = Op(op, names, FALSE, <<>>)
  /\ streams' = quiet(streams)
  /\ UNCHANGED <<store, instances, initialValues, storage, isBrowser, config>>

ControlChange == \E c \in Controls, v \in Values : controlSetValue(c, v, "change", <<>>)

\* ... of the one control that is registered
ControlChangeOne == \E v \in Values : controlSetValue("c1", v, "change", <<>>)

\* setValue(name, value) / patchValue(name, value), lines 215-248
proxyValue(name, v, op) ==
  IF Has(instances, name)
  THEN controlSetValue(instances[name], v, op, <<name>>)
  ELSE /\ lastOp' = Op(op, <<name>>, FALSE, <<>>)
       /\ streams' = quiet(streams)
       /\ UNCHANGED <<store, valueChanges, instances, initialValues, orphans,
                      controls, storage, isBrowser, config>>

SetValue == \E name \in Names, v \in Values : proxyValue(name, v, "setValue")

PatchValue == \E name \in Names, v \in Values : proxyValue(name, v, "patchValue")

\* the subscribe callback of lines 364-367, run when the debounce timer of a
\* subscription elapses
callback(sub) ==
  /\ store' = updateStore(store, sub.name, sub.control)
  /\ storage' = updateStorage(storage, sub.name,
                              toStore(sub.control, controls[sub.control].value), sub)
  /\ streams' = notify(streams, store')
  /\ lastOp' = Op("callback", <<sub.name>>, FALSE, <<>>)
  /\ UNCHANGED <<instances, initialValues, controls, isBrowser, config>>

\* ... of the subscription held in valueChanges$$
DebounceFire ==
  \E name \in DOMAIN valueChanges :
     /\ valueChanges[name].pending
     /\ valueChanges' = [valueChanges EXCEPT ![name].pending = FALSE]
     /\ orphans' = orphans
     /\ callback(valueChanges[name])

\* ... of a subscription that upsert replaced in valueChanges$$ without
\* cancelling it
DebounceFireReplaced ==
  \E sub \in BagToSet(orphans) :
     /\ sub.pending
     /\ orphans' = (orphans (-) SetToBag({sub}))
                     (+) SetToBag({[sub EXCEPT !.pending = FALSE]})
     /\ valueChanges' = valueChanges
     /\ callback(sub)

\* setInitialValue(name, value), lines 259-261
SetInitialValue ==
  \E name \in Names, v \in Values :
     /\ initialValues' = MapSet(initialValues, name, v)
     /\ lastOp' = Op("setInitialValue", <<name>>, FALSE, <<>>)
     /\ streams' = quiet(streams)
     /\ UNCHANGED <<store, valueChanges, instances, orphans, controls,
                    storage, isBrowser, config>>

\* the for loop of unsubscribe(name), lines 272-280
RECURSIVE unsubscribeNamesIfHas(_, _, _, _)
unsubscribeNamesIfHas(names, vc, inst, em) ==
  IF names = <<>>
  THEN [valueChanges |-> vc, instances |-> inst, emitted |-> em]
  ELSE unsubscribeNamesIfHas(Tail(names), MapDelete(vc, {Head(names)}),
                             MapDelete(inst, {Head(names)}),
                             IF Has(vc, Head(names)) THEN Append(em, Head(names))
                             ELSE em)
RECURSIVE unsubscribeNames(_, _, _, _)
unsubscribeNames(names, vc, inst, em) ==
  IF names = <<>>
  THEN [valueChanges |-> vc, instances |-> inst, emitted |-> em]
  ELSE unsubscribeNames(Tail(names), MapDelete(vc, {Head(names)}),
                        MapDelete(inst, {Head(names)}), Append(em, Head(names)))

\* unsubscribe(name?), lines 270-289: the registries and the destroy$$
\* emissions after the call
unsubscribe(given, names) ==
  IF given
  THEN unsubscribeNames(names, valueChanges, instances, <<>>)
  ELSE [valueChanges |-> EmptyMap, instances |-> EmptyMap,
        emitted |-> [i \in 1..Cardinality(DOMAIN valueChanges) |-> ALL]]

\* removeFromStorage(), lines 375-377
removeFromStorageSkipEmpty(st, s) ==
  IF s = EmptyMap THEN st ELSE MapSet(st, DefaultKey, Stringify(s))
removeFromStorage(st, s) == MapSet(st, DefaultKey, Stringify(s))

\* removeInitialValue(name), lines 421-423
removeInitialValue(iv, given, names) ==
  IF given THEN MapDelete(iv, Range(names)) ELSE iv

\* clear(name?), lines 300-304: localStorage is not defined outside the
\* browser, so removeFromStorage raises there and the call stops
clearFirstOnly(given, names) ==
  LET s1 == IF given THEN deleteControl(store, <<Head(names)>>) ELSE EmptyMap
  IN IF isBrowser
     THEN [store |-> s1, storage |-> removeFromStorage(storage, s1),
           initialValues |-> removeInitialValue(initialValues, given, names),
           raised |-> FALSE]
     ELSE [store |-> s1, storage |-> storage,
           initialValues |-> initialValues, raised |-> TRUE]
clear(given, names) ==
  LET s1 == IF given THEN deleteControl(store, names) ELSE EmptyMap
  IN IF isBrowser
     THEN [store |-> s1, storage |-> removeFromStorage(storage, s1),
           initialValues |-> removeInitialValue(initialValues, given, names),
           raised |-> FALSE]
     ELSE [store |-> s1, storage |-> storage,
           initialValues |-> initialValues, raised |-> TRUE]

doUnsubscribe(given, names, op) ==
  LET u == unsubscribe(given, names)
  IN /\ valueChanges' = u.valueChanges
     /\ instances' = u.instances
     /\ lastOp' = Op(op, names, FALSE, u.emitted)
     /\ streams' = quiet(streams)
     /\ UNCHANGED <<store, initialValues, orphans, controls, storage,
                    isBrowser, config>>

Unsubscribe == \E names \in NameArgs : doUnsubscribe(TRUE, names, "unsubscribe")

UnsubscribeAll == doUnsubscribe(FALSE, <<>>, "unsubscribeAll")

doClear(given, names, op) ==
  LET r == clear(given, names)
  IN /\ store' = r.store
     /\ storage' = r.storage
     /\ initialValues' = r.initialValues
     /\ streams' = notify(streams, r.store)
     /\ lastOp' = Op(op, names, r.raised, <<>>)
     /\ UNCHANGED <<valueChanges, instances, orphans, controls,
                    isBrowser, config>>

Clear == \E names \in NameArgs : doClear(TRUE, names, "clear")

ClearAll == doClear(FALSE, <<>>, "clearAll")

\* destroy(name?), lines 315-318: unsubscribe(name) then clear(name)
doDestroy(given, names, op) ==
  LET u == unsubscribe(given, names)
      r == clear(given, names)
  IN /\ valueChanges' = u.valueChanges
     /\ instances' = u.instances
     /\ store' = r.store
     /\ storage' = r.storage
     /\ initialValues' = r.initialValues
     /\ streams' = notify(streams, r.store)
     /\ lastOp' = Op(op, names, r.raised, u.emitted)
     /\ UNCHANGED <<orphans, controls, isBrowser, config>>

Destroy == \E names \in NameArgs : doDestroy(TRUE, names, "destroy")

DestroyAll == doDestroy(FALSE, <<>>, "destroyAll")

\* the registration lifecycle of two names on one control, without
\* persistState and withInitialValue
Next ==
  \/ Upsert
  \/ ControlChangeOne
  \/ SetValue
  \/ PatchValue
  \/ DebounceFire
  \/ DebounceFireReplaced
  \/ Unsubscribe
  \/ UnsubscribeAll
  \/ Clear
  \/ ClearAll
  \/ Destroy
  \/ DestroyAll

Spec == Init /\ [][Next]_vars

\* the captured initial values, one name registered
NextInitial ==
  \/ UpsertInitial
  \/ ControlChangeOne
  \/ SetInitialValue
  \/ DebounceFire
  \/ DebounceFireReplaced
  \/ Unsubscribe
  \/ UnsubscribeAll
  \/ Clear
  \/ ClearAll
  \/ Destroy
  \/ DestroyAll

SpecInitial == Init /\ [][NextInitial]_vars

\* persistState on "a" and not on "b", two controls, starting with or without
\* a blob of an earlier session
InitPersist == \E prior \in {EmptyMap, PriorSession} : InitWith(TRUE, FALSE, prior)

NextPersist ==
  \/ UpsertPersist
  \/ ControlChange
  \/ DebounceFire
  \/ DebounceFireReplaced
  \/ Unsubscribe
  \/ UnsubscribeAll
  \/ Clear
  \/ ClearAll
  \/ Destroy
  \/ DestroyAll

SpecPersist == InitPersist /\ [][NextPersist]_vars

\* controlDestroyed(name), lines 161-165: what a listener receives of the
\* signals sent on destroy$$
controlDestroyed(name, signals) ==
  SelectSeq(signals, LAMBDA controlName : name = controlName \/ controlName = ALL)

\* the subscriptions for name that are not cancelled
ActiveCount(name) ==
  (IF Has(valueChanges, name) THEN 1 ELSE 0)
  + BagCardinality([sub \in {x \in DOMAIN orphans : x.name = name} |-> orphans[sub]])

\* the unregistered state of a name
Unregistered(name) ==
  ~Has(valueChanges, name) /\ ~Has(instances, name) /\ ~hasControl(store, name)

TypeOK ==
  /\ DOMAIN store \subseteq Names
  /\ DOMAIN valueChanges \subseteq Names
  /\ DOMAIN instances = DOMAIN valueChanges
  /\ DOMAIN initialValues \subseteq Names
  /\ DOMAIN storage \subseteq Keys
  /\ BagCardinality(orphans) <= MaxOrphans

\* ---------------------------------------------------------------- claims

\* C1: every name has at most one subscription that is not cancelled.
C1_OneActiveSubscription == \A n \in Names : ActiveCount(n) <= 1

\* C2: while a name has no subscription in valueChanges$$ (after
\* unsubscribe(name), before the next upsert(name)) no subscribe callback for
\* that name changes the store entry of the name.
C2_NoStoreWriteAfterUnsubscribe ==
  [][(lastOp'.op = "callback" /\ ~Has(valueChanges, lastOp'.names[1]))
       => LET n == lastOp'.names[1]
          IN /\ Has(store', n) = Has(store, n)
             /\ Has(store, n) => store'[n] = store[n]]_vars

\* C3 as stated: after upsert(name, control), getControl(name) equals the
\* snapshot of the control, whatever the store and the blob held before.
C3_UpsertStoresSnapshot ==
  lastOp.op = "upsert"
    => LET n == lastOp.names[1]
       IN store[n] = toStore(instances[n], controls[instances[n]].value)

\* the hydration test of upsert, lines 340-342
Hydrates(name, cfg) ==
  /\ isBrowser
  /\ cfg.persistState = "on"
  /\ Has(getFromStorage(storage, MergeConfig(cfg).key), name)

\* C3 as amended: after upsert(name, control) on a name that had no store
\* entry and that the call does not hydrate from the persisted blob,
\* getControl(name) equals the snapshot of the control.
C3_UpsertStoresSnapshotOfNewName ==
  [][\A call \in PersistCalls :
       (/\ upsert(call[1], call[2], call[3])
        /\ ~hasControl(store, call[1])
        /\ ~Hydrates(call[1], call[3]))
       => /\ Has(store', call[1])
          /\ store'[call[1]] = toStore(call[2], controls'[call[2]].value)]_vars

\* upsert("b", c1) without persistState while the blob of the earlier session
\* has an entry for "b": nothing is hydrated
C3_Witness ==
  /\ lastOp.op = "upsert"
  /\ lastOp.names = <<"b">>
  /\ instances["b"] = "c1"
  /\ store["b"] = toStore("c1", 0)
  /\ Has(getFromStorage(storage, DefaultKey), "b")
  /\ getFromStorage(storage, DefaultKey)["b"].value = 1
  /\ orphans = EmptyBag

\* C4: unsubscribe(name) with one name makes controlDestroyed(name) emit
\* once and controlDestroyed(other) emit nothing.
C4_UnsubscribeNameEmitsOnce ==
  (lastOp.op = "unsubscribe" /\ Len(lastOp.names) = 1)
    => \A n \in Names :
         Len(controlDestroyed(n, lastOp.emitted))
           = IF n = lastOp.names[1] THEN 1 ELSE 0

\* unsubscribe("b") when "b" was never registered and "a" is
C4_Witness ==
  /\ lastOp.op = "unsubscribe"
  /\ lastOp.names = <<"b">>
  /\ lastOp.emitted = <<"b">>
  /\ ~hasControl(store, "b")
  /\ Has(valueChanges, "a")

\* C5: unsubscribe() empties both registries and every controlDestroyed(n)
\* listener receives exactly one emission.
C5_UnsubscribeAllEmitsOnce ==
  lastOp.op = "unsubscribeAll"
    => /\ valueChanges = EmptyMap
       /\ instances = EmptyMap
       /\ \A n \in Names : Len(controlDestroyed(n, lastOp.emitted)) = 1

\* C6: a captured initial value changes only by clear or destroy of the name
\* or by setInitialValue of the name; no upsert changes it.
C6_InitialValueCapturedOnce ==
  [][\A n \in Names :
       (Has(initialValues, n)
          /\ (~Has(initialValues', n) \/ initialValues'[n] # initialValues[n]))
       => /\ lastOp'.op \in {"clear", "destroy", "setInitialValue"}
          /\ n \in Range(lastOp'.names)]_vars

\* upsert("a", control, config) with a control whose value is not the
\* captured one
C6_Witness ==
  /\ lastOp.op = "upsert"
  /\ lastOp.names = <<"a">>
  /\ Has(initialValues, "a")
  /\ initialValues["a"] # controls[instances["a"]].value

\* C7: clear(names) removes the store entries of the names, leaves the other
\* entries as they were, and the persisted blob then has the names of the
\* store.
C7_ClearNames ==
  [][lastOp'.op = "clear"
       => /\ DOMAIN store' = DOMAIN store \ Range(lastOp'.names)
          /\ \A n \in DOMAIN store' : store'[n] = store[n]
          /\ DOMAIN getFromStorage(storage', DefaultKey) = DOMAIN store']_vars

\* clear("a") with "a" and "b" registered
C7_Witness ==
  /\ lastOp.op = "clear"
  /\ lastOp.names = <<"a">>
  /\ DOMAIN store = {"b"}
  /\ DOMAIN valueChanges = {"a", "b"}
  /\ DOMAIN getFromStorage(storage, DefaultKey) = {"b"}

\* C8: clear() leaves the store empty and the empty mapping in the blob.
C8_ClearAll ==
  lastOp.op = "clearAll"
    => /\ store = EmptyMap
       /\ Has(storage, DefaultKey)
       /\ storage[DefaultKey] = Stringify(EmptyMap)

\* clear() with "a" and "b" registered
C8_Witness ==
  /\ lastOp.op = "clearAll"
  /\ DOMAIN valueChanges = {"a", "b"}
  /\ store = EmptyMap
  /\ Has(storage, DefaultKey)

\* C9: after clear(names) no given name has a captured initial value, and
\* after clear() no name whose store entry was removed has one.
C9_ClearRemovesInitialValue ==
  [][/\ lastOp'.op = "clear"
          => \A n \in Range(lastOp'.names) : ~Has(initialValues', n)
     /\ lastOp'.op = "clearAll"
          => \A n \in DOMAIN store : ~Has(initialValues', n)]_vars

\* C10: after destroy(name) the name is unregistered, and an unregistered
\* name stays unregistered until the next upsert of that name.
C10_DestroyedStaysUnregistered ==
  [][/\ lastOp'.op = "destroy"
          => \A n \in Range(lastOp'.names) : Unregistered(n)'
     /\ \A n \in Names :
          (Unregistered(n) /\ ~(lastOp'.op = "upsert" /\ lastOp'.names = <<n>>))
            => Unregistered(n)']_vars

\* C11: every name with a subscription in valueChanges$$ also has a control
\* in instances$$ and an entry in the store, after any sequence of upsert,
\* unsubscribe, clear and destroy.
C11_RegisteredHasControlAndEntry ==
  \A n \in Names : Has(valueChanges, n) => (Has(instances, n) /\ hasControl(store, n))

\* ------------------------------------------- persistState by default
\* the process-wide configuration has persistState true, the calls leave it
\* unset or set it with a storage key of their own
PersistCustomKey == [persistState |-> "on", withInitialValue |-> FALSE, key |-> CustomKey]

ConfigCalls == {<<"a", "c2", NoConfig>>, <<"b", "c1", PersistCustomKey>>}

UpsertConfig == UpsertFrom(ConfigCalls)

InitConfig == InitWith(TRUE, TRUE, PriorSession)

NextConfig ==
  \/ UpsertConfig
  \/ ControlChange
  \/ DebounceFire
  \/ DebounceFireReplaced
  \/ Unsubscribe
  \/ UnsubscribeAll
  \/ Clear
  \/ ClearAll
  \/ Destroy
  \/ DestroyAll

SpecConfig == InitConfig /\ [][NextConfig]_vars

\* C12: an upsert whose merged configuration has persistState on (set by the
\* call or by the process-wide default), of a name with no store entry and an
\* entry in the blob, leaves the store entry of the name equal to the persisted
\* entry deep-merged over the fresh snapshot, and leaves the blob entry as it
\* was.
C12_UpsertHydrates ==
  [][\A call \in ConfigCalls :
       LET name == call[1]
           c == call[2]
           cfg == call[3]
           merged == MergeConfig(cfg)
           blob == getFromStorage(storage, merged.key)
       IN (/\ upsert(name, c, cfg)
           /\ isBrowser
           /\ merged.persistState
           /\ ~hasControl(store, name)
           /\ Has(blob, name))
            => /\ Has(store', name)
               /\ store'[name] = mergeDeep(toStore(c, controls[c].value), blob[name])
               /\ Has(getFromStorage(storage', merged.key), name)
               /\ getFromStorage(storage', merged.key)[name] = blob[name]]_vars

InitServer == InitWith(FALSE, FALSE, EmptyMap)

SpecServer == InitServer /\ [][NextPersist]_vars

\* C14: where localStorage does not exist no operation raises, and nothing
\* is persisted.
C14_NoStorageNoError ==
  ~isBrowser => (~lastOp.raised /\ storage = EmptyMap)

\* C15: in every reachable state every entry of every persisted blob is a
\* snapshot without the bookkeeping keys valid, dirty, disabled and errors.
C15_BlobHasNoBookkeeping ==
  \A key \in DOMAIN storage :
    \A n \in DOMAIN getFromStorage(storage, key) :
      DOMAIN getFromStorage(storage, key)[n] \cap BookkeepingKeys = {}

\* ------------------------------------------------------ derived streams
\* streams of "a" are subscribed from the start: controlChanges and
\* valueChanges, without a path and with a path that no snapshot resolves
NoPath == <<>>

EmailPath == <<"email">>

StreamListeners ==
  {Listener("a", NoPath, "control"), Listener("a", EmailPath, "control"),
   Listener("a", NoPath, "value"), Listener("a", EmailPath, "value")}

StreamCalls == {<<"a", "c2", PersistState>>, <<"a", "c1", NoConfig>>}

UpsertStreams == UpsertFrom(StreamCalls)

InitStreams == InitState(TRUE, FALSE, EmptyMap, StreamListeners)

NextStreams ==
  \/ UpsertStreams
  \/ ControlChange
  \/ DebounceFire
  \/ DebounceFireReplaced
  \/ Unsubscribe
  \/ UnsubscribeAll
  \/ Clear
  \/ ClearAll
  \/ Destroy
  \/ DestroyAll

SpecStreams == InitStreams /\ [][NextStreams]_vars

\* C16: a stream of controlChanges(name, path) emits only while the store has
\* an entry for the name, and the node it emits is never equal to the node it
\* emitted before, whatever the store writes in between, the removal and the
\* re-creation of the entry included.
C16_StreamSkipsAbsentAndRepeated ==
  [][\A l \in DOMAIN streams :
       (l.project = "control" /\ streams'[l].out # <<>>)
         => /\ Has(store', l.name)
            /\ streams'[l].out = streams'[l].prev
            /\ streams'[l].prev # streams[l].prev]_vars

\* upsert re-created the entry of "a" that a clear had removed, equal to the
\* node the stream emitted last, and the stream emitted nothing
C16_Witness ==
  LET st == streams[Listener("a", NoPath, "control")]
  IN /\ lastOp.op = "upsert"
     /\ Has(store, "a")
     /\ st.gap
     /\ st.prev = <<store["a"]>>
     /\ st.out = <<>>

\* C17: a stream of valueChanges(name, path) never fails: for a path that
\* does not resolve in the store entry of the name no error is raised into
\* the stream.
C17_UnresolvedPathDoesNotFail ==
  \A l \in DOMAIN streams : ~streams[l].failed

\* C18: upsert of a name that has a store entry leaves the store and the
\* persisted blobs unchanged, sets the value of the control to the value of
\* the store entry, and no derived stream emits.
C18_UpsertOfStoredNamePatchesControl ==
  [][\A call \in StreamCalls :
       LET name == call[1]
           c == call[2]
       IN (upsert(name, c, call[3]) /\ hasControl(store, name))
            => /\ store' = store
               /\ storage' = storage
               /\ controls'[c].value = store[name].value
               /\ \A l \in DOMAIN streams : streams'[l].out = <<>>]_vars

\* upsert("a", c1) found the entry that c2 had stored and set c1 back to its
\* value 0
C18_Witness ==
  /\ lastOp.op = "upsert"
  /\ lastOp.names = <<"a">>
  /\ Has(instances, "a")
  /\ instances["a"] = "c1"
  /\ Has(store, "a")
  /\ store["a"] = toStore("c2", 0)
  /\ controls["c1"].value = 0
  /\ controls["c2"].value = 1
  /\ \A l \in DOMAIN streams : streams[l].out = <<>>

\* C19: clear(names) leaves the blob entry of every name it is not given as
\* it was, the names included that the blob holds from an earlier session
\* and the store has no entry for.
C19_ClearKeepsOtherBlobEntries ==
  [][lastOp'.op = "clear"
       => \A key \in Keys :
            \A n \in Names \ Range(lastOp'.names) :
               LET before == getFromStorage(storage, key)
                   after == getFromStorage(storage', key)
               IN /\ Has(after, n) = Has(before, n)
                  /\ Has(before, n) => after[n] = before[n]]_vars

\* C20: after clear(names) and destroy(names) the blob under the storage key
\* given to upsert has no entry for any of the names, so that a later upsert
\* with the same configuration finds nothing to hydrate from.
C20_ClearRemovesEntryUnderItsKey ==
  [][lastOp'.op \in {"clear", "destroy"}
       => \A n \in Range(lastOp'.names) :
            ~Has(getFromStorage(storage', CustomKey), n)]_vars

====
